---- MODULE Spec2Model ----
(***************************************************************************)
(* NBSDataPipeline (src/nbs_pipeline.py): the entry validator              *)
(* validate_entry as a pure function over JSON values, and the incremental *)
(* directory processor process_directory as a state machine over the       *)
(* output dataset, the in-memory record list and the run's position.       *)
(*                                                                         *)
(* A Python str is a sequence of one-character strings.  A JSON value is a *)
(* record [t, v]: t is its Python type, v its characters (str), its        *)
(* str() text (num, bool), its items (list); null and the empty dict carry *)
(* an empty v.                                                             *)
(***************************************************************************)
EXTENDS Integers, Sequences, FiniteSets, TLC

VARIABLES
    v_entry,        \* validate_entry: the mapping given
    v_out,          \* validate_entry: what the call produced
    v_pc,           \* validate_entry: "input" before the call, "done" after
    disk,           \* the dataset file at output_path: [exists, rows]
    dict_file,      \* whether the sibling field-description document exists
    stats_file,     \* what this run wrote to the directory's processing_stats.json
    pc,             \* process_directory: idle, loop, returned, raised, killed
    run,            \* how many process_directory calls have started
    html_files,     \* the file listing of this run's directory
    file_urls,      \* the url the metadata resolves for each listed file
    existing_urls,  \* url_source values loaded at the start of the run
    entries,        \* the in-memory record list
    idx,            \* position of the for loop in html_files
    llm_calls,      \* files whose prompt was sent to the LLM in this run
    log,            \* what this run printed for each file, in order
    disk0,          \* the dataset file as it was when this run started
    load_ok,        \* whether this run's load_existing_data read the file
    rerun,          \* whether this run repeats the run before it: the same
                    \* listing and urls, after that run returned with every
                    \* file saved or skipped
    last,           \* what the collaborators answered in the latest step of
                    \* this run: [text, reply, save, stats]
    s_dir,          \* save_data: whether the directory of output_path exists
    s_disk,         \* save_data: the file at output_path: [exists, rows]
    s_dict,         \* save_data: whether the _dictionary.json beside it exists
    s_format,       \* save_data: the format of the latest call
    s_result,       \* save_data: none, returned or raised
    cloudflare_solved,  \* UnacityScraper.cloudflare_solved
    g_pc,           \* _get_page_content: idle, load, wait, first, anyway, returned
    max_retries,    \* _get_page_content: the argument of the call
    attempt,        \* _get_page_content: the outer loop's variable
    loads,          \* _get_page_content: driver.get calls made by this call
    max_challenge_wait, \* _get_page_content: polls allowed in this wait
    wait_cycle,     \* _get_page_content: polls made in this attempt's wait
    g_result        \* _get_page_content: none, content or None

vvars == <<v_entry, v_out, v_pc>>

pvars == <<disk, dict_file, stats_file, pc, run, html_files, file_urls, existing_urls,
           entries, idx, llm_calls, log, disk0, load_ok, rerun, last>>

svars == <<s_dir, s_disk, s_dict, s_format, s_result>>

gvars == <<cloudflare_solved, g_pc, max_retries, attempt, loads, max_challenge_wait,
           wait_cycle, g_result>>

vars == <<vvars, pvars, svars, gvars>>

-----------------------------------------------------------------------------
(* Bounds of the model *)

\* longest generated summary, in characters
MaxSummaryLen == 5
\* longest generated free-text scalar, in characters
MaxTextLen == 2
\* longest generated list for a set-typed field
MaxItems == 2
\* most HTML files in a directory
MaxFiles == 2
\* most entries in a metadata document's successful_files
MaxMeta == 2
\* most process_directory calls against the output path
MaxRuns == 2
\* most rows of a DataFrame handed to save_data directly
MaxRows == 2

-----------------------------------------------------------------------------
(* Python strings *)

LowerAlpha == <<"a","b","c","d","e","f","g","h","i","j","k","l","m",
                "n","o","p","q","r","s","t","u","v","w","x","y","z">>
UpperAlpha == <<"A","B","C","D","E","F","G","H","I","J","K","L","M",
                "N","O","P","Q","R","S","T","U","V","W","X","Y","Z">>

\* str.lower() on one character
LowerChar(c) ==
    IF \E i \in 1..26 : UpperAlpha[i] = c
    THEN LowerAlpha[CHOOSE i \in 1..26 : UpperAlpha[i] = c]
    ELSE c

\* str.upper() on one character (used to build inputs only)
UpperChar(c) ==
    IF \E i \in 1..26 : LowerAlpha[i] = c
    THEN UpperAlpha[CHOOSE i \in 1..26 : LowerAlpha[i] = c]
    ELSE c

\* str.lower()
Lower(s) == [i \in 1..Len(s) |-> LowerChar(s[i])]

Upper(s) == [i \in 1..Len(s) |-> UpperChar(s[i])]

IsSpace(c) == c = " "

RECURSIVE LStrip(_)
LStrip(s) == IF s # <<>> /\ IsSpace(Head(s)) THEN LStrip(Tail(s)) ELSE s

RECURSIVE RStrip(_)
RStrip(s) ==
    IF s # <<>> /\ IsSpace(s[Len(s)]) THEN RStrip(SubSeq(s, 1, Len(s) - 1)) ELSE s

\* str.strip()
Strip(s) == RStrip(LStrip(s))

\* str.split('.'): the segments between periods, always at least one
RECURSIVE Split(_)
Split(s) ==
    IF \E i \in 1..Len(s) : s[i] = "."
    THEN LET i == CHOOSE k \in 1..Len(s) :
                      s[k] = "." /\ \A j \in 1..(k - 1) : s[j] # "."
         IN  <<SubSeq(s, 1, i - 1)>> \o Split(SubSeq(s, i + 1, Len(s)))
    ELSE <<s>>

\* sep.join(parts)
RECURSIVE Join(_, _)
Join(sep, parts) ==
    IF parts = <<>> THEN <<>>
    ELSE IF Len(parts) = 1 THEN parts[1]
    ELSE parts[1] \o sep \o Join(sep, Tail(parts))

-----------------------------------------------------------------------------
(* JSON values as Python sees them *)

PyStr(s)  == [t |-> "str", v |-> s]
PyNum(s)  == [t |-> "num", v |-> s]
PyBool(s) == [t |-> "bool", v |-> s]
PyNone    == [t |-> "null", v |-> <<>>]
PyList(l) == [t |-> "list", v |-> l]
PyDict    == [t |-> "dict", v |-> <<>>]

Unknown == <<"u","n","k","n","o","w","n">>

\* bool(x): the truth value Python gives a JSON value
Truthy(x) ==
    CASE x.t = "str"  -> x.v # <<>>
      [] x.t = "num"  -> x.v # <<"0">>
      [] x.t = "bool" -> x.v = <<"T","r","u","e">>
      [] x.t = "list" -> x.v # <<>>
      [] OTHER        -> FALSE

\* repr(x)
RECURSIVE Repr(_)
Repr(x) ==
    CASE x.t = "str"  -> <<"'">> \o x.v \o <<"'">>
      [] x.t = "list" ->
            <<"[">> \o Join(<<",", " ">>, [i \in 1..Len(x.v) |-> Repr(x.v[i])]) \o <<"]">>
      [] x.t = "null" -> <<"N","o","n","e">>
      [] x.t = "dict" -> <<"{","}">>
      [] OTHER        -> x.v

\* str(x)
ToStr(x) == IF x.t = "str" THEN x.v ELSE Repr(x)

-----------------------------------------------------------------------------
(* NBSDataPipeline.__init__: the schema and the closed vocabularies *)

schema == <<"title", "summary", "status", "location_name", "country", "scale",
            "solution_types", "challenges_addressed", "health_linkages_primary",
            "impacts", "governance", "url_source", "environmental_context">>

SchemaFields == {schema[i] : i \in 1..Len(schema)}

ListFields == {"solution_types", "challenges_addressed",
               "health_linkages_primary", "impacts"}

valid_status ==
    { <<"p","l","a","n","n","e","d">>,
      <<"i","n","-","p","r","o","g","r","e","s","s">>,
      <<"c","o","m","p","l","e","t","e","d">>,
      <<"o","n","g","o","i","n","g">>,
      Unknown }

valid_scales ==
    { <<"s","i","t","e">>,
      <<"n","e","i","g","h","b","o","r","h","o","o","d">>,
      <<"c","i","t","y">>,
      <<"w","a","t","e","r","s","h","e","d">>,
      <<"r","e","g","i","o","n","a","l">>,
      Unknown }

valid_env_contexts ==
    { <<"u","r","b","a","n">>,
      <<"c","o","a","s","t","a","l">>,
      <<"w","e","t","l","a","n","d">>,
      <<"f","o","r","e","s","t">>,
      <<"a","g","r","i","c","u","l","t","u","r","a","l">>,
      Unknown }

EnumFields == {"status", "scale", "environmental_context"}

ValidSet(field) ==
    CASE field = "status" -> valid_status
      [] field = "scale"  -> valid_scales
      [] OTHER            -> valid_env_contexts

-----------------------------------------------------------------------------
(* NBSDataPipeline.validate_entry *)

\* the outcome of an expression that raises
Raises == [t |-> "raise", v |-> <<>>]

\* entry.get(field)
Get(entry, field) == IF field \in DOMAIN entry THEN entry[field] ELSE PyNone

\* line 202 storing value in place of value.lower()
CleanEnum_keeps_case(value, valid) ==
    IF value.t # "str" THEN Raises
    ELSE IF Lower(value.v) \in valid THEN PyStr(value.v)
    ELSE PyStr(Unknown)

\* value.lower() if value.lower() in valid else 'unknown'; only str has .lower()
CleanEnum(value, valid) ==
    IF value.t # "str" THEN Raises
    ELSE IF Lower(value.v) \in valid THEN PyStr(Lower(value.v))
    ELSE PyStr(Unknown)

\* lines 218-223 without the test of line 221
RECURSIVE CleanItems_no_seen(_, _)
CleanItems_no_seen(items, cleaned_list) ==
    IF items = <<>> THEN cleaned_list
    ELSE LET item == Head(items)
             cleaned_item == Lower(Strip(ToStr(item)))
         IN  IF Truthy(item) /\ Strip(ToStr(item)) # <<>>
             THEN CleanItems_no_seen(Tail(items), Append(cleaned_list, PyStr(cleaned_item)))
             ELSE CleanItems_no_seen(Tail(items), cleaned_list)

\* the loop over a list value: keep str(item).strip().lower() of every truthy
\* item whose stripped text is non-empty and not seen before
RECURSIVE CleanItems(_, _)
CleanItems(items, cleaned_list) ==
    IF items = <<>> THEN cleaned_list
    ELSE LET item == Head(items)
             cleaned_item == Lower(Strip(ToStr(item)))
             seen == {cleaned_list[i].v : i \in 1..Len(cleaned_list)}
         IN  IF Truthy(item) /\ Strip(ToStr(item)) # <<>> /\ cleaned_item \notin seen
             THEN CleanItems(Tail(items), Append(cleaned_list, PyStr(cleaned_item)))
             ELSE CleanItems(Tail(items), cleaned_list)

\* lines 214-226 without the else branch of line 226
CleanList_keeps_other(value) ==
    IF value.t = "list" THEN PyList(CleanItems(value.v, <<>>)) ELSE value

\* lines 212-226: a list is cleaned, anything else becomes the empty list
CleanList(value) ==
    IF value.t = "list" THEN PyList(CleanItems(value.v, <<>>)) ELSE PyList(<<>>)

\* line 234 joining the segments without sentence.strip()
CleanSummary_untrimmed(value) ==
    LET text == Strip(ToStr(value))
        segments == Split(text)
    IN  IF Len(segments) > 4
        THEN PyStr(Join(<<".", " ">>, [i \in 1..4 |-> segments[i]]) \o <<".">>)
        ELSE PyStr(text)

\* str(value).strip(), cut to the first 4 period-delimited segments when
\* there are more than 4
CleanSummary(value) ==
    LET text == Strip(ToStr(value))
        segments == Split(text)
    IN  IF Len(segments) > 4
        THEN PyStr(Join(<<".", " ">>, [i \in 1..4 |-> Strip(segments[i])]) \o <<".">>)
        ELSE PyStr(text)

\* line 238 with repr(value) in place of str(value)
CleanText_repr(value) ==
    IF Strip(Repr(value)) # <<>> THEN PyStr(Strip(Repr(value))) ELSE PyStr(Unknown)

\* str(value).strip() if str(value).strip() else 'unknown'
CleanText(value) ==
    IF Strip(ToStr(value)) # <<>> THEN PyStr(Strip(ToStr(value))) ELSE PyStr(Unknown)

\* lines 195-197 giving 'unknown' whatever the field's type
CleanField_null_unknown(field, value) ==
    IF value.t = "null"
    THEN PyStr(Unknown)
    ELSE IF field \in EnumFields THEN CleanEnum(value, ValidSet(field))
    ELSE IF field \in ListFields THEN CleanList(value)
    ELSE IF field = "summary" THEN CleanSummary(value)
    ELSE CleanText(value)

\* one pass of the loop body for a field
CleanField(field, value) ==
    IF value.t = "null"
    THEN IF field \in ListFields THEN PyList(<<>>) ELSE PyStr(Unknown)
    ELSE IF field \in EnumFields THEN CleanEnum(value, ValidSet(field))
    ELSE IF field \in ListFields THEN CleanList(value)
    ELSE IF field = "summary" THEN CleanSummary(value)
    ELSE CleanText(value)

\* validate_entry(entry): [raised, cleaned]; cleaned is the mapping returned
validate_entry(entry) ==
    LET cleaned == [field \in SchemaFields |-> CleanField(field, Get(entry, field))]
    IN  IF \E field \in SchemaFields : cleaned[field] = Raises
        THEN [raised |-> TRUE, cleaned |-> <<>>]
        ELSE [raised |-> FALSE, cleaned |-> cleaned]

-----------------------------------------------------------------------------
(* Inputs of validate_entry: what an LLM reply can hold in a field *)

RECURSIVE SeqsUpTo(_, _)
\* every sequence over S of length at most n
SeqsUpTo(S, n) ==
    IF n = 0 THEN {<<>>}
    ELSE LET shorter == SeqsUpTo(S, n - 1)
         IN  shorter \cup {Append(q, x) : q \in shorter, x \in S}

Capitalize(s) == IF s = <<>> THEN s ELSE <<UpperChar(s[1])>> \o Tail(s)

True_  == PyBool(<<"T","r","u","e">>)
False_ == PyBool(<<"F","a","l","s","e">>)

\* values of a type the schema does not expect in a scalar field
WrongTyped ==
    { PyNum(<<"0">>), PyNum(<<"5">>), True_, False_, PyDict,
      PyList(<<>>), PyList(<<PyStr(<<"a">>)>>) }

TextInputs == {PyStr(s) : s \in SeqsUpTo({"a", "A", " "}, MaxTextLen)}

EnumInputs(field) ==
    {PyStr(w) : w \in ValidSet(field)}
    \cup {PyStr(Upper(w)) : w \in ValidSet(field)}
    \cup {PyStr(Capitalize(w)) : w \in ValidSet(field)}
    \cup {PyStr(<<" ">> \o w) : w \in ValidSet(field)}
    \cup {PyStr(<<"d","o","n","e">>)}
    \cup TextInputs

SixSentences ==
    <<"A", ".", " ", "B", ".", " ", "C", ".", " ", "D", ".", " ", "E", ".", " ", "F", ".">>

FourSentences == <<"A", ".", " ", "B", ".", " ", "C", ".", " ", "D", ".">>

SummaryInputs ==
    {PyStr(s) : s \in SeqsUpTo({"a", " ", "."}, MaxSummaryLen)}
    \cup {PyStr(SixSentences), PyStr(<<" ">> \o SixSentences \o <<" ">>)}

Flooding == <<"f","l","o","o","d","i","n","g">>

FloodingList ==
    PyList(<< PyStr(Capitalize(Flooding)), PyStr(Flooding),
              PyStr(<<" ">> \o Flooding \o <<" ">>), PyStr(<<>>) >>)

ItemInputs ==
    { PyStr(<<>>), PyStr(<<" ">>), PyStr(<<"a">>), PyStr(<<"A">>), PyStr(<<" ", "a", " ">>),
      PyStr(<<"b">>), PyNum(<<"0">>), PyNum(<<"5">>), False_, PyNone }

ListInputs == {PyList(l) : l \in SeqsUpTo(ItemInputs, MaxItems)} \cup {FloodingList}

FieldInputs(field) ==
    {PyNone} \cup WrongTyped \cup
    ( IF field \in EnumFields THEN EnumInputs(field)
      ELSE IF field \in ListFields THEN ListInputs \cup TextInputs
      ELSE IF field = "summary" THEN SummaryInputs
      ELSE TextInputs )

\* the empty mapping, and a reply that fills all 13 fields as the prompt asks
EmptyEntry == [k \in {} |-> PyNone]

FullEntry ==
    [field \in SchemaFields |->
        IF field \in ListFields THEN PyList(<<PyStr(<<"a">>)>>)
        ELSE IF field \in EnumFields THEN PyStr(Unknown)
        ELSE PyStr(<<"a">>)]

\* a mapping with one field set to a chosen value, with or without a key
\* that is not in the schema
ValidatorInputs ==
    {EmptyEntry, FullEntry}
    \cup UNION { { (field :> value) @@ base :
                     value \in FieldInputs(field), base \in {EmptyEntry, FullEntry} } :
                 field \in SchemaFields }
    \cup UNION { { ("source_file" :> PyStr(<<"a">>)) @@ (field :> value) @@ EmptyEntry :
                     value \in FieldInputs(field) } :
                 field \in SchemaFields }

-----------------------------------------------------------------------------
(* The dataset file: DataFrame.to_csv and pd.read_csv *)

\* a missing value in a DataFrame (float nan)
NaN == [t |-> "nan", v |-> <<>>]

\* cell texts pd.read_csv reads as missing (its default na_values, those
\* over the model's alphabet)
NaTexts == { <<>>, <<"N","A">>, <<"N","o","n","e">>, <<"n","a","n">>, <<"n","u","l","l">> }

\* the text to_csv writes for one value: str(value), nothing for a missing one
CsvCell(value) == IF value.t = "nan" THEN <<>> ELSE ToStr(value)

\* the value read_csv gives one cell text (no cell of the model is numeric)
CsvParse(text) == IF text \in NaTexts THEN NaN ELSE PyStr(text)

\* df.to_csv(output_path, index=False): the rows written for the records
to_csv(records) ==
    [i \in 1..Len(records) |->
        [field \in DOMAIN records[i] |-> CsvCell(records[i][field])]]

\* pd.read_csv(file_path).to_dict('records')
read_csv(rows) ==
    [i \in 1..Len(rows) |-> [field \in DOMAIN rows[i] |-> CsvParse(rows[i][field])]]

NoFile == [exists |-> FALSE, rows |-> <<>>]

\* load_existing_data(file_path): the records read, none when the file is
\* absent, empty or cannot be read
load_existing_data(file, readable) ==
    IF file.exists /\ readable THEN read_csv(file.rows) ELSE <<>>

-----------------------------------------------------------------------------
(* The directory given to process_directory *)

AllFiles == <<"f1.html", "f2.html", "f3.html", "f4.html">>

UrlA == <<"h", "/", "a">>
UrlB == <<"h", "/", "b">>

\* an entry of successful_files without a 'link' key
NoLink == [t |-> "absent", v |-> <<>>]

\* the links a metadata entry can carry: a url, a url with a leading blank,
\* none
Links == {PyStr(UrlA), PyStr(<<" ">> \o UrlB), NoLink}

MetaEntries(files) ==
    {[filename |-> files[i], link |-> l] : i \in 1..Len(files), l \in Links}

\* download_metadata.json as process_directory loads it: None when the
\* document is missing or unparsable
NoMetadata == [loaded |-> FALSE, successful_files |-> <<>>]

Metadatas(files) ==
    {NoMetadata} \cup
    {[loaded |-> TRUE, successful_files |-> q] : q \in SeqsUpTo(MetaEntries(files), MaxMeta)}

\* the url of lines 279-285: the link of the first successful_files entry
\* whose filename is the file's name, 'unknown' without one
resolve_url(meta, file_name) ==
    LET sf == meta.successful_files
        hits == {i \in 1..Len(sf) : sf[i].filename = file_name}
    IN  IF meta.loaded /\ hits # {}
        THEN LET first == CHOOSE i \in hits : \A j \in hits : i <= j
             IN  IF sf[first].link = NoLink THEN PyStr(Unknown) ELSE sf[first].link
        ELSE PyStr(Unknown)

\* line 288 without the test url != 'unknown'
is_known_url_any(url, urls) == url \in urls

\* line 288 with != typed as ==
is_known_url_inverted(url, urls) == url = PyStr(Unknown) /\ url \in urls

\* line 288: url != 'unknown' and url in existing_urls
is_known_url(url, urls) == url # PyStr(Unknown) /\ url \in urls

\* line 256 reading the title column
url_set_of_titles(existing) == {existing[i]["title"] : i \in 1..Len(existing)}

\* line 256: set(existing_df['url_source'].tolist()), the empty set for an
\* empty frame
url_set(existing) == {existing[i]["url_source"] : i \in 1..Len(existing)}

-----------------------------------------------------------------------------
(* What the collaborators of one loop iteration can answer *)

\* len(text_content.strip()) below which a file is skipped
MinTextLen == 100

\* line 295 with < typed as <=
is_insufficient_inclusive(text) == text <= MinTextLen

\* line 295: not text_content or len(text_content.strip()) < 100, on the
\* stripped length
is_insufficient(text) == text = 0 \/ text < MinTextLen

\* parse_html(file): it raises, or returns a text of this stripped length
ParseRaises == -1
TextOutcomes == {ParseRaises, 0, MinTextLen - 1, MinTextLen}

\* the source_type every caller in the repository passes
SourceType == PyStr(<<"u","n","a","c","i","t","y">>)

\* extract_info_with_llm(prompt): None on a transport failure or a reply
\* that is not JSON, else the parsed JSON value
LlmFailed == PyNone

ReplyFull ==
    ("title" :> PyStr(<<"T">>)) @@ ("status" :> PyStr(<<"P","l","a","n","n","e","d">>))
    @@ ("country" :> PyStr(<<"N","A">>))
    @@ ("solution_types" :> PyList(<<PyStr(<<"A">>), PyStr(<<"a">>)>>))
    @@ ("url_source" :> PyStr(<<"h", "/", "l", "l", "m">>))

ReplyBadType == ("title" :> PyStr(<<"T">>)) @@ ("status" :> PyNum(<<"5">>))

\* a JSON object is [t |-> "object", v |-> mapping]
PyObject(m) == [t |-> "object", v |-> m]

Replies ==
    { LlmFailed, PyObject(EmptyEntry), PyList(<<PyStr(<<"a">>)>>),
      PyObject(ReplyFull), PyObject(ReplyBadType) }

\* `if extracted_info:` on what extract_info_with_llm returned
ReplyTruthy(reply) ==
    IF reply.t = "object" THEN DOMAIN reply.v # {} ELSE Truthy(reply)

\* line 305 as extracted_info.setdefault('url_source', url)
with_provenance_setdefault(info, url, file_name) ==
    info @@ ("url_source" :> url) @@ ("data_source" :> SourceType)
    @@ ("source_file" :> PyStr(<<file_name>>))

\* lines 305-312: the reply with url_source, data_source and source_file set
with_provenance(info, url, file_name) ==
    ("url_source" :> url) @@ ("data_source" :> SourceType)
    @@ ("source_file" :> PyStr(<<file_name>>)) @@ info

\* what save_data(df, output_path, 'csv') can do: write both files, raise
\* before the dataset is opened, raise after it is written, or be cut short
\* by the process being terminated once the dataset is opened for writing
SaveOutcomes == {"ok", "csv_fails", "dict_fails", "killed"}

\* what the collaborators answer in one iteration: the parse, then the LLM
\* when it is reached, then the save when it is reached (cut: the rows that
\* reached the file when the process is terminated during the write)
Outcome(text, reply, save, cut) == [text |-> text, reply |-> reply, save |-> save, cut |-> cut]

\* the answers of a step that reached none of the collaborators
NotParsed == -2
NotAsked == [t |-> "unasked", v |-> <<>>]
NoAnswers == [text |-> NotParsed, reply |-> NotAsked, save |-> "none", stats |-> "none"]

Outcomes(n_rows) ==
    {Outcome(text, LlmFailed, "ok", 0) : text \in TextOutcomes \ {MinTextLen}}
    \cup {Outcome(MinTextLen, reply, "ok", 0) : reply \in Replies}
    \cup {Outcome(MinTextLen, PyObject(ReplyFull), save, 0) :
             save \in SaveOutcomes \ {"killed"}}
    \cup {Outcome(MinTextLen, PyObject(ReplyFull), "killed", cut) : cut \in 0..n_rows}

-----------------------------------------------------------------------------
(* process_directory *)

NoStats == [written |-> FALSE, total_files |-> 0, processed_files |-> 0,
            success_rate |-> 0]

\* f"{(len(entries) / len(html_files) * 100):.1f}%" in tenths of a percent
success_rate(n_entries, n_files) == (2000 * n_entries + n_files) \div (2 * n_files)

PipelineInit ==
    /\ disk = NoFile
    /\ dict_file = FALSE
    /\ stats_file = NoStats
    /\ pc = "idle"
    /\ run = 0
    /\ html_files = <<>>
    /\ file_urls = <<>>
    /\ existing_urls = {}
    /\ entries = <<>>
    /\ idx = 1
    /\ llm_calls = <<>>
    /\ log = <<>>
    /\ disk0 = NoFile
    /\ load_ok = TRUE
    /\ rerun = FALSE
    /\ last = NoAnswers

\* lines 254-273: load the existing dataset, list the directory, load the
\* metadata.  The metadata is not written again during the run, so the url
\* lines 279-285 resolve for each file is kept in place of the document.
StartRun(n, meta, readable) ==
    LET existing == load_existing_data(disk, readable)
        listing == SubSeq(AllFiles, 1, n)
        urls == [i \in 1..n |-> resolve_url(meta, listing[i])]
    IN  /\ pc # "loop"
        /\ run < MaxRuns
        /\ run' = run + 1
        /\ existing_urls' = url_set(existing)
        /\ entries' = existing
        /\ html_files' = listing
        /\ file_urls' = urls
        /\ idx' = 1
        /\ llm_calls' = <<>>
        /\ log' = <<>>
        /\ disk0' = disk
        /\ load_ok' = (disk.exists => readable)
        /\ rerun' = /\ pc = "returned"
                     /\ listing = html_files
                     /\ urls = file_urls
                     /\ \A i \in 1..Len(log) : log[i].outcome \in {"saved", "skipped"}
        /\ stats_file' = NoStats
        /\ last' = NoAnswers
        /\ pc' = "loop"
        /\ UNCHANGED <<disk, dict_file, vvars, svars, gvars>>

\* line 276 handing out the same file again
next_file_again(i) == i

\* line 276: the for loop moves to the next file of the listing
next_file(i) == i + 1

Logged(file_name, what) == log' = Append(log, [file |-> file_name, outcome |-> what])

\* lines 276-326: one iteration of the for loop
ProcessFile(o) ==
    LET text == o.text
        reply == o.reply
        save == o.save
        cut == o.cut
        file_name == html_files[idx]
        url == file_urls[idx]
        validated == validate_entry(with_provenance(reply.v, url, file_name))
        appended == Append(entries, validated.cleaned)
    IN  /\ pc = "loop"
        /\ idx <= Len(html_files)
        /\ idx' = next_file(idx)
        /\ IF is_known_url(url, existing_urls)
           THEN /\ Logged(file_name, "skipped")
                /\ last' = NoAnswers
                /\ UNCHANGED <<disk, dict_file, entries, llm_calls, pc>>
           ELSE IF text = ParseRaises
           THEN /\ Logged(file_name, "error")
                /\ last' = [NoAnswers EXCEPT !.text = text]
                /\ UNCHANGED <<disk, dict_file, entries, llm_calls, pc>>
           ELSE IF is_insufficient(text)
           THEN /\ Logged(file_name, "insufficient")
                /\ last' = [NoAnswers EXCEPT !.text = text]
                /\ UNCHANGED <<disk, dict_file, entries, llm_calls, pc>>
           ELSE /\ llm_calls' = Append(llm_calls, file_name)
                /\ IF ~ReplyTruthy(reply)
                   THEN /\ Logged(file_name, "no_data")
                        /\ last' = [NoAnswers EXCEPT !.text = text, !.reply = reply]
                        /\ UNCHANGED <<disk, dict_file, entries, pc>>
                   ELSE IF reply.t # "object" \/ validated.raised
                   THEN /\ Logged(file_name, "error")
                        /\ last' = [NoAnswers EXCEPT !.text = text, !.reply = reply]
                        /\ UNCHANGED <<disk, dict_file, entries, pc>>
                   ELSE /\ entries' = appended
                        /\ last' = [NoAnswers EXCEPT !.text = text, !.reply = reply,
                                                      !.save = save]
                        /\ CASE save = "ok" ->
                                  /\ disk' = [exists |-> TRUE, rows |-> to_csv(appended)]
                                  /\ dict_file' = TRUE
                                  /\ Logged(file_name, "saved")
                                  /\ UNCHANGED pc
                             [] save = "csv_fails" ->
                                  /\ Logged(file_name, "error")
                                  /\ UNCHANGED <<disk, dict_file, pc>>
                             [] save = "dict_fails" ->
                                  /\ disk' = [exists |-> TRUE, rows |-> to_csv(appended)]
                                  /\ Logged(file_name, "error")
                                  /\ UNCHANGED <<dict_file, pc>>
                             [] OTHER ->
                                  /\ cut <= Len(entries)
                                  /\ disk' = [exists |-> TRUE,
                                              rows |-> SubSeq(to_csv(appended), 1, cut)]
                                  /\ pc' = "killed"
                                  /\ UNCHANGED <<dict_file, log>>
        /\ UNCHANGED <<stats_file, run, html_files, file_urls, existing_urls, disk0,
                       load_ok, rerun, vvars, svars, gvars>>

\* the process is terminated between two files
Terminate ==
    /\ pc = "loop"
    /\ pc' = "killed"
    /\ UNCHANGED <<disk, dict_file, stats_file, run, html_files, file_urls, existing_urls,
                   entries, idx, llm_calls, log, disk0, load_ok, rerun, last, vvars, svars, gvars>>

\* lines 328-361: after the loop
FinishRun(stats_saved) ==
    /\ pc = "loop"
    /\ idx > Len(html_files)
    /\ IF entries = <<>>
       THEN /\ pc' = "returned"
            /\ UNCHANGED <<stats_file, last>>
       ELSE IF Len(html_files) = 0
       THEN /\ pc' = "raised"
            /\ UNCHANGED <<stats_file, last>>
       ELSE /\ pc' = "returned"
            /\ last' = [last EXCEPT !.stats = IF stats_saved THEN "ok" ELSE "fails"]
            /\ stats_file' =
                 IF stats_saved
                 THEN [written |-> TRUE, total_files |-> Len(html_files),
                       processed_files |-> Len(entries),
                       success_rate |-> success_rate(Len(entries), Len(html_files))]
                 ELSE stats_file
    /\ UNCHANGED <<disk, dict_file, run, html_files, file_urls, existing_urls, entries, idx,
                   llm_calls, log, disk0, load_ok, rerun, vvars, svars, gvars>>

Next ==
    \/ \E n \in 0..MaxFiles, readable \in BOOLEAN :
          \E meta \in Metadatas(SubSeq(AllFiles, 1, n)) : StartRun(n, meta, readable)
    \/ \E o \in Outcomes(MaxFiles * MaxRuns) : ProcessFile(o)
    \/ Terminate
    \/ \E stats_saved \in BOOLEAN : FinishRun(stats_saved)

-----------------------------------------------------------------------------
(* UnacityScraper._get_page_content (src/Unacity/unacity_scraper.py) *)

\* the default of the max_retries parameter, which every caller uses
DefaultMaxRetries == 3

\* what the browser shows when it is asked: the read raises, the page is a
\* Cloudflare challenge (_detect_cloudflare_challenge is true), or it is not
PageOutcomes == {"raises", "challenge", "clear"}

\* line 128 allowing 30 polls before the first solve
max_challenge_wait_long(solved) == IF solved THEN 15 ELSE 30

\* line 128: 15 if self.cloudflare_solved else 20
max_challenge_wait_of(solved) == IF solved THEN 15 ELSE 20

\* a scraper just constructed (line 44), no call made
ScraperIdle ==
    /\ cloudflare_solved = FALSE
    /\ g_pc = "idle"
    /\ max_retries = 0
    /\ attempt = 0
    /\ loads = 0
    /\ max_challenge_wait = 0
    /\ wait_cycle = 0
    /\ g_result = "none"

\* a caller calls _get_page_content(url, max_retries = n)
GetPageContent(n) ==
    /\ g_pc \in {"idle", "returned"}
    /\ max_retries' = n
    /\ attempt' = 0
    /\ loads' = 0
    /\ wait_cycle' = 0
    /\ max_challenge_wait' = 0
    /\ g_result' = "none"
    /\ g_pc' = "load"
    /\ UNCHANGED <<cloudflare_solved, vvars, pvars, svars>>

\* the except of lines 173-177, and the end of an iteration that did not
\* return: the outer loop takes its next attempt
NextAttempt ==
    /\ attempt' = attempt + 1
    /\ g_pc' = "load"
    /\ UNCHANGED <<cloudflare_solved, max_retries, g_result>>

\* return page_source
ReturnContent ==
    /\ g_pc' = "returned"
    /\ g_result' = "content"
    /\ UNCHANGED <<max_retries, attempt>>

\* lines 104-128 and 153-156: driver.get, the first look at the page
LoadPage(page) ==
    /\ g_pc = "load"
    /\ attempt < max_retries
    /\ loads' = loads + 1
    /\ CASE page = "raises" ->
              NextAttempt /\ UNCHANGED <<max_challenge_wait, wait_cycle>>
         [] page = "clear" /\ cloudflare_solved ->
              ReturnContent /\ UNCHANGED <<cloudflare_solved, max_challenge_wait, wait_cycle>>
         [] page = "challenge" ->
              /\ max_challenge_wait' = max_challenge_wait_of(cloudflare_solved)
              /\ wait_cycle' = 0
              /\ g_pc' = "wait"
              /\ UNCHANGED <<cloudflare_solved, max_retries, attempt, g_result>>
         [] OTHER ->
              /\ g_pc' = "first"
              /\ UNCHANGED <<cloudflare_solved, max_retries, attempt, g_result,
                             max_challenge_wait, wait_cycle>>
    /\ UNCHANGED <<vvars, pvars, svars>>

\* lines 130-149: one poll of the challenge wait
PollChallenge(page) ==
    /\ g_pc = "wait"
    /\ wait_cycle < max_challenge_wait
    /\ wait_cycle' = wait_cycle + 1
    /\ IF page = "clear"
       THEN ReturnContent /\ cloudflare_solved' = TRUE
       ELSE UNCHANGED <<cloudflare_solved, g_pc, max_retries, attempt, g_result>>
    /\ UNCHANGED <<loads, max_challenge_wait, vvars, pvars, svars>>

\* line 151: the wait ran out of polls
WaitExpired ==
    /\ g_pc = "wait"
    /\ wait_cycle >= max_challenge_wait
    /\ g_pc' = "anyway"
    /\ UNCHANGED <<cloudflare_solved, max_retries, attempt, loads, max_challenge_wait,
                   wait_cycle, g_result, vvars, pvars, svars>>

\* lines 158-162: the second look of a first access
FirstAccess(page) ==
    /\ g_pc = "first"
    /\ CASE page = "raises" -> NextAttempt
         [] page = "clear" -> ReturnContent /\ cloudflare_solved' = TRUE
         [] OTHER -> /\ g_pc' = "anyway"
                     /\ UNCHANGED <<cloudflare_solved, max_retries, attempt, g_result>>
    /\ UNCHANGED <<loads, max_challenge_wait, wait_cycle, vvars, pvars, svars>>

\* lines 164-171: the page is returned anyway when it is over 2000
\* characters; a shorter page or a failed read ends the attempt
ProceedAnyway(long_page) ==
    /\ g_pc = "anyway"
    /\ IF long_page
       THEN ReturnContent /\ UNCHANGED cloudflare_solved
       ELSE NextAttempt
    /\ UNCHANGED <<loads, max_challenge_wait, wait_cycle, vvars, pvars, svars>>

\* lines 179-180: every attempt is used up
GiveUp ==
    /\ g_pc = "load"
    /\ attempt >= max_retries
    /\ g_pc' = "returned"
    /\ g_result' = "None"
    /\ UNCHANGED <<cloudflare_solved, max_retries, attempt, loads, max_challenge_wait,
                   wait_cycle, vvars, pvars, svars>>

\* the steps of a call that is running
ScraperStep ==
    \/ \E page \in PageOutcomes : LoadPage(page)
    \/ \E page \in PageOutcomes : PollChallenge(page)
    \/ WaitExpired
    \/ \E page \in PageOutcomes : FirstAccess(page)
    \/ \E long_page \in BOOLEAN : ProceedAnyway(long_page)
    \/ GiveUp

NextScraper ==
    \/ \E n \in 0..DefaultMaxRetries : GetPageContent(n)
    \/ ScraperStep

-----------------------------------------------------------------------------
(* save_data called by a caller with a format of its choice *)

\* the formats save_data has a branch for, and the formats a caller passes
SupportedFormats == {"csv", "json", "excel"}
Formats == SupportedFormats \cup {"CSV", "xml"}

\* the DataFrames handed to save_data: validated records
SaveFrames ==
    SeqsUpTo({validate_entry(EmptyEntry).cleaned, validate_entry(ReplyFull).cleaned},
             MaxRows)

\* what the writer of a format puts in the file: to_json keeps the JSON
\* values, to_csv and to_excel write one cell text per value
FileContent(df, format) == IF format = "json" THEN df ELSE to_csv(df)

\* what can go wrong in a call: nothing, os.makedirs raises, the writer
\* raises before the file is opened, the open() of the dictionary raises
SaveFailures == {"ok", "mkdir_fails", "write_fails", "dict_fails"}

\* lines 377-398 with the else branch writing CSV in place of raising
save_data_else_csv(dir, file, dictf, df, format, outcome) ==
    IF ~dir /\ outcome = "mkdir_fails"
    THEN [dir |-> dir, disk |-> file, dict |-> dictf, raised |-> TRUE]
    ELSE IF outcome = "write_fails"
    THEN [dir |-> TRUE, disk |-> file, dict |-> dictf, raised |-> TRUE]
    ELSE [dir |-> TRUE, disk |-> [exists |-> TRUE, rows |-> FileContent(df, format)],
          dict |-> (dictf \/ outcome # "dict_fails"), raised |-> outcome = "dict_fails"]

\* save_data(df, output_path, format): the directory, the file and the
\* dictionary after the call, and whether it raised
save_data(dir, file, dictf, df, format, outcome) ==
    IF ~dir /\ outcome = "mkdir_fails"
    THEN [dir |-> dir, disk |-> file, dict |-> dictf, raised |-> TRUE]
    ELSE IF format \notin SupportedFormats \/ outcome = "write_fails"
    THEN [dir |-> TRUE, disk |-> file, dict |-> dictf, raised |-> TRUE]
    ELSE [dir |-> TRUE, disk |-> [exists |-> TRUE, rows |-> FileContent(df, format)],
          dict |-> (dictf \/ outcome # "dict_fails"), raised |-> outcome = "dict_fails"]

\* no save_data call made
SaveIdle ==
    /\ s_dir = TRUE
    /\ s_disk = NoFile
    /\ s_dict = FALSE
    /\ s_format = "none"
    /\ s_result = "none"

\* the output path before the first call: no directory, or a directory with
\* or without a dataset written earlier and its dictionary
InitSave ==
    /\ s_dir \in BOOLEAN
    /\ s_disk \in {NoFile} \cup
                  {[exists |-> TRUE, rows |-> to_csv(df)] : df \in SaveFrames}
    /\ s_dict \in BOOLEAN
    /\ ~s_dir => (s_disk = NoFile /\ ~s_dict)
    /\ s_format = "none"
    /\ s_result = "none"
    /\ v_entry = EmptyEntry
    /\ v_out = [raised |-> FALSE, cleaned |-> <<>>]
    /\ v_pc = "input"
    /\ PipelineInit
    /\ ScraperIdle

SaveData(df, format, outcome) ==
    LET after == save_data(s_dir, s_disk, s_dict, df, format, outcome)
    IN  /\ s_dir' = after.dir
        /\ s_disk' = after.disk
        /\ s_dict' = after.dict
        /\ s_format' = format
        /\ s_result' = IF after.raised THEN "raised" ELSE "returned"
        /\ UNCHANGED <<vvars, pvars, gvars>>

NextSave == \E df \in SaveFrames, format \in Formats, outcome \in SaveFailures :
               SaveData(df, format, outcome)

SpecSave == InitSave /\ [][NextSave]_vars

-----------------------------------------------------------------------------
(* _get_page_content called again and again on one scraper *)

InitScraper ==
    /\ ScraperIdle
    /\ SaveIdle
    /\ PipelineInit
    /\ v_entry = [k \in {} |-> PyNone]
    /\ v_out = [raised |-> FALSE, cleaned |-> <<>>]
    /\ v_pc = "input"

\* a call that is running takes its next step: the thread is never
\* suspended, every sleep ends and every browser request returns or raises
SpecScraper == InitScraper /\ [][NextScraper]_vars /\ WF_vars(ScraperStep)

-----------------------------------------------------------------------------
(* validate_entry called on one mapping *)

NotCalled == [raised |-> FALSE, cleaned |-> <<>>]

InitValidate ==
    /\ v_entry \in ValidatorInputs
    /\ v_out = NotCalled
    /\ v_pc = "input"
    /\ PipelineInit
    /\ ScraperIdle
    /\ SaveIdle

\* cleaned = validate_entry(entry)
ValidateCall ==
    /\ v_pc = "input"
    /\ v_out' = validate_entry(v_entry)
    /\ v_pc' = "done"
    /\ UNCHANGED <<v_entry, pvars, svars, gvars>>

\* validate_entry(cleaned): the validator given its own output
ValidateAgain ==
    /\ v_pc = "done"
    /\ ~v_out.raised
    /\ v_entry' = v_out.cleaned
    /\ v_out' = validate_entry(v_out.cleaned)
    /\ v_pc' = "again"
    /\ UNCHANGED <<pvars, svars, gvars>>

NextValidate == ValidateCall \/ ValidateAgain

SpecValidate == InitValidate /\ [][NextValidate]_vars

-----------------------------------------------------------------------------
(* process_directory called again and again against one output path *)

Init ==
    /\ v_entry = EmptyEntry
    /\ v_out = NotCalled
    /\ v_pc = "input"
    /\ PipelineInit
    /\ ScraperIdle
    /\ SaveIdle

Spec == Init /\ [][Next]_vars

Returned == v_pc = "done" /\ ~v_out.raised

-----------------------------------------------------------------------------
(* C5: validate_entry never raises, whatever mapping it is given: after    *)
(* the call there is always a returned record.                             *)
ValidateNeverRaises == v_pc = "done" => ~v_out.raised

IsStrValue(x) == x.t = "str"

IsStrList(x) == x.t = "list" /\ \A i \in 1..Len(x.v) : IsStrValue(x.v[i])

(* C6: every mapping validate_entry returns has exactly the 13 canonical   *)
(* keys; the four set-typed fields hold lists of strings and the other     *)
(* nine hold strings.                                                      *)
ValidatedShape ==
    Returned =>
        /\ DOMAIN v_out.cleaned = SchemaFields
        /\ Cardinality(DOMAIN v_out.cleaned) = 13
        /\ \A field \in ListFields : IsStrList(v_out.cleaned[field])
        /\ \A field \in SchemaFields \ ListFields : IsStrValue(v_out.cleaned[field])

ValidatedShapeWitness ==
    /\ Returned
    /\ "source_file" \in DOMAIN v_entry
    /\ "impacts" \in DOMAIN v_entry /\ v_entry["impacts"] = PyNum(<<"5">>)

(* C7: for any string given for status, scale or environmental_context the *)
(* validated value is in that field's closed set: the lower-cased input    *)
(* when that is in the set, "unknown" otherwise.                           *)
EnumClosure ==
    /\ (v_pc = "done" /\ \A field \in EnumFields : Get(v_entry, field).t \in {"str", "null"})
           => ~v_out.raised
    /\ \A field \in EnumFields :
           (Returned /\ field \in DOMAIN v_entry /\ v_entry[field].t = "str") =>
               /\ v_out.cleaned[field].t = "str"
               /\ v_out.cleaned[field].v \in ValidSet(field)
               /\ Lower(v_entry[field].v) \in ValidSet(field)
                      => v_out.cleaned[field].v = Lower(v_entry[field].v)
               /\ Lower(v_entry[field].v) \notin ValidSet(field)
                      => v_out.cleaned[field].v = Unknown

EnumClosureWitness ==
    /\ Returned
    /\ "scale" \in DOMAIN v_entry
    /\ v_entry["scale"] = PyStr(<<"C","I","T","Y">>)
    /\ v_out.cleaned["scale"] = PyStr(<<"c","i","t","y">>)

\* whether the strings of `part` occur in `whole` in the same order
RECURSIVE IsSubsequence(_, _)
IsSubsequence(part, whole) ==
    IF part = <<>> THEN TRUE
    ELSE IF whole = <<>> THEN FALSE
    ELSE IF Head(part) = Head(whole) THEN IsSubsequence(Tail(part), Tail(whole))
    ELSE IsSubsequence(part, Tail(whole))

(* C8: for any list given for a set-typed field the validated list holds   *)
(* only trimmed, lower-cased, non-empty strings, no two equal, in the      *)
(* order of their first occurrence in the input; the list ["Flooding",     *)
(* "flooding", " flooding ", ""] validates to ["flooding"]; a value that   *)
(* is not a list validates to the empty list.                              *)
SetFieldCleaning ==
    \A field \in ListFields :
        (Returned /\ field \in DOMAIN v_entry) =>
            LET given == v_entry[field]
                out == v_out.cleaned[field].v
                normed == [i \in 1..Len(given.v) |-> Lower(Strip(ToStr(given.v[i])))]
            IN  /\ given.t # "list" => out = <<>>
                /\ given = FloodingList => out = <<PyStr(Flooding)>>
                /\ given.t = "list" =>
                      /\ \A i \in 1..Len(out) :
                            /\ out[i].t = "str"
                            /\ out[i].v # <<>>
                            /\ Strip(out[i].v) = out[i].v
                            /\ Lower(out[i].v) = out[i].v
                      /\ \A i, j \in 1..Len(out) : i # j => out[i] # out[j]
                      /\ IsSubsequence([i \in 1..Len(out) |-> out[i].v], normed)
                      /\ \A i, j \in 1..Len(out) :
                            i < j =>
                              (CHOOSE k \in 1..Len(normed) :
                                   normed[k] = out[i].v /\ Truthy(given.v[k])
                                   /\ \A m \in 1..(k - 1) :
                                        ~(normed[m] = out[i].v /\ Truthy(given.v[m])))
                              <
                              (CHOOSE k \in 1..Len(normed) :
                                   normed[k] = out[j].v /\ Truthy(given.v[k])
                                   /\ \A m \in 1..(k - 1) :
                                        ~(normed[m] = out[j].v /\ Truthy(given.v[m])))

SetFieldCleaningWitness ==
    /\ Returned
    /\ "challenges_addressed" \in DOMAIN v_entry
    /\ v_entry["challenges_addressed"] = FloodingList
    /\ v_out.cleaned["challenges_addressed"] = PyList(<<PyStr(Flooding)>>)

(* C9: a summary that splits on the period into more than 4 segments       *)
(* validates to its first 4 segments, each trimmed, joined by ". " and     *)
(* followed by one period; a summary with at most 4 segments is returned   *)
(* trimmed and otherwise unchanged.                                        *)
SummaryTruncation ==
    (v_pc = "done" /\ "summary" \in DOMAIN v_entry /\ v_entry["summary"].t = "str"
        /\ ~v_out.raised) =>
        LET given == v_entry["summary"].v
            segments == Split(given)
            out == v_out.cleaned["summary"]
        IN  /\ out.t = "str"
            /\ Len(segments) > 4 =>
                  /\ out.v = Strip(segments[1]) \o <<".", " ">> \o Strip(segments[2])
                             \o <<".", " ">> \o Strip(segments[3]) \o <<".", " ">>
                             \o Strip(segments[4]) \o <<".">>
                  /\ Len(Split(out.v)) = 5
            /\ Len(segments) <= 4 => out.v = Strip(given)
            /\ given = SixSentences => out.v = FourSentences

SummaryTruncationWitness ==
    /\ Returned
    /\ "summary" \in DOMAIN v_entry
    /\ v_entry["summary"] = PyStr(SixSentences)
    /\ v_out.cleaned["summary"] = PyStr(FourSentences)

-----------------------------------------------------------------------------
(* Claims about process_directory *)

\* the url_source cells of a dataset file
UrlCells(file) == {file.rows[i]["url_source"] : i \in 1..Len(file.rows)}

IsPrefix(p, q) == Len(p) <= Len(q) /\ SubSeq(q, 1, Len(p)) = p

(* C1: after any sequence of runs against one output path no two records   *)
(* of the dataset have the same url_source other than "unknown".           *)
UrlSourceUnique ==
    \A i, j \in 1..Len(disk.rows) :
        (i # j /\ disk.rows[i]["url_source"] = disk.rows[j]["url_source"])
            => disk.rows[i]["url_source"] = Unknown

(* C2 as stated: a run that repeats a directory, after a run in which      *)
(* every file was saved or skipped and with the dataset loading, adds no   *)
(* record: the dataset has as many rows and the same url_source set as     *)
(* before it.                                                              *)
IdempotentRerun ==
    (pc = "returned" /\ rerun /\ load_ok) =>
        /\ Len(disk.rows) = Len(disk0.rows)
        /\ UrlCells(disk) = UrlCells(disk0)

\* every listed file's url is other than 'unknown' and is a url_source the
\* dataset held, readable, when the run started
AllUrlsRecorded ==
    /\ load_ok
    /\ \A i \in 1..Len(html_files) :
          /\ file_urls[i] # PyStr(Unknown)
          /\ \E k \in 1..Len(disk0.rows) :
                CsvParse(disk0.rows[k]["url_source"]) = file_urls[i]

(* C2 amended: a run that repeats a directory in which every file's url is *)
(* other than "unknown" and already a url_source of the dataset it loads   *)
(* makes no LLM call, adds no record and leaves the dataset file as it was.*)
IdempotentForRecordedUrls ==
    (pc \in {"loop", "returned"} /\ rerun /\ AllUrlsRecorded) =>
        /\ llm_calls = <<>>
        /\ disk = disk0
        /\ to_csv(entries) = to_csv(read_csv(disk0.rows))
        /\ \A i \in 1..Len(log) : log[i].outcome = "skipped"

IdempotentForRecordedUrlsWitness ==
    /\ pc = "returned"
    /\ rerun
    /\ AllUrlsRecorded
    /\ Len(html_files) = 2
    /\ Len(log) = 2
    /\ disk = disk0
    /\ Len(disk.rows) >= 2

(* C3: a file whose resolved url is not "unknown" and is a url_source of   *)
(* the dataset loaded at the start of the run causes no text extraction,   *)
(* no LLM call, no new record and no rewrite of the dataset.               *)
SkipOnDuplicate ==
    [][ ( /\ pc = "loop"
          /\ idx <= Len(html_files)
          /\ load_ok
          /\ file_urls[idx] # PyStr(Unknown)
          /\ \E k \in 1..Len(disk0.rows) :
                CsvParse(disk0.rows[k]["url_source"]) = file_urls[idx] )
        => ( /\ llm_calls' = llm_calls
             /\ entries' = entries
             /\ disk' = disk
             /\ dict_file' = dict_file
             /\ \/ pc' = "killed" /\ idx' = idx
                \/ /\ idx' = idx + 1
                   /\ log' = Append(log, [file |-> html_files[idx], outcome |-> "skipped"]) )
      ]_vars

SkipOnDuplicateWitness ==
    /\ pc = "returned"
    /\ load_ok
    /\ \E i \in 1..Len(log) :
          /\ log[i].outcome = "skipped"
          /\ file_urls[i] = PyStr(UrlA)
    /\ \E i \in 1..Len(log) : log[i].outcome = "saved"
    /\ Len(disk.rows) = Len(disk0.rows) + 1

(* C4: a record set once written is never lost to a terminated run (the    *)
(* rows on file before the termination are still its first rows after),    *)
(* and right after a file is saved the file holds the in-memory records.   *)
CheckpointDurable ==
    [][ /\ pc' = "killed" => IsPrefix(disk.rows, disk'.rows)
        /\ (pc' = "loop" /\ Len(log') > Len(log) /\ log'[Len(log')].outcome = "saved")
              => disk'.rows = to_csv(entries')
      ]_vars

(* C10: every record in the dataset before a run is still there after the *)
(* run returns, unchanged and in the same position; records are only added *)
(* at the end.                                                             *)
AppendOnlyDataset == pc = "returned" => IsPrefix(disk0.rows, disk.rows)

-----------------------------------------------------------------------------
\* a step of the for loop over one file
FileStep == pc = "loop" /\ idx' = idx + 1

\* the step's file failed: the parse raised, the LLM call failed or did not
\* give JSON, the JSON was not an object, validate_entry raised, or
\* save_data raised
FailedStep ==
    /\ FileStep
    /\ \/ last'.text = ParseRaises
       \/ last'.reply = LlmFailed
       \/ last'.reply # NotAsked /\ last'.reply.t # "object"
       \/ last'.reply.t = "object" /\ ReplyTruthy(last'.reply)
             /\ validate_entry(last'.reply.v).raised
       \/ last'.save \in {"csv_fails", "dict_fails"}

(* C11: a failure while one file is processed is not fatal: the loop goes  *)
(* on to the next file, no record is added for the failed file, and the    *)
(* dataset file is as it was.                                              *)
PerFileFailureNonFatal ==
    [][ FailedStep => /\ pc' = "loop"
                      /\ entries' = entries
                      /\ disk' = disk
      ]_vars

\* the records the run started from, and those it added
Loaded == load_existing_data(disk0, load_ok)
NewRecords == SubSeq(entries, Len(Loaded) + 1, Len(entries))

(* C12: the statistics document a run writes reports total_files = the     *)
(* number of HTML files listed and processed_files = the number of files   *)
(* that produced a record in this run, whether or not the dataset held     *)
(* records before the run.                                                 *)
RunStatisticsValues ==
    (pc = "returned" /\ stats_file.written) =>
        /\ stats_file.total_files = Len(html_files)
        /\ stats_file.processed_files = Len(NewRecords)

(* C13: every row of the dataset file carries the provenance fields        *)
(* data_source and source_file besides the canonical fields.               *)
ProvenancePersisted ==
    \A i \in 1..Len(disk.rows) :
        /\ SchemaFields \subseteq DOMAIN disk.rows[i]
        /\ {"data_source", "source_file"} \subseteq DOMAIN disk.rows[i]

(* C14: whenever the LLM reply for a file is a JSON object, whatever       *)
(* fields it holds, and the checkpoint write goes through, the step adds   *)
(* exactly one record with all 13 fields for the file and reports it       *)
(* saved, not failed.                                                      *)
PartialReplyAbsorbed ==
    [][ ( /\ FileStep
          /\ last'.reply.t = "object"
          /\ last'.save \in {"none", "ok"} )
        => /\ Len(entries') = Len(entries) + 1
           /\ DOMAIN entries'[Len(entries')] = SchemaFields
           /\ Len(log') = Len(log) + 1
           /\ log'[Len(log')].outcome = "saved"
      ]_vars

(* C15: process_directory never raises to its caller for a directory that  *)
(* can be listed, whatever the files in it and whatever the state of the   *)
(* existing dataset.                                                       *)
NeverRaisesToCaller == pc # "raised"

(* C16: save_data with a format other than csv, json and excel raises, and *)
(* leaves the file at the output path and the field-description document   *)
(* as they were.                                                           *)
UnsupportedFormatRaises ==
    [][ (s_format' \notin SupportedFormats \cup {"none"})
        => /\ s_result' = "raised"
           /\ s_disk' = s_disk
           /\ s_dict' = s_dict
      ]_vars

UnsupportedFormatRaisesWitness ==
    /\ s_format = "xml"
    /\ s_result = "raised"
    /\ s_disk.exists
    /\ Len(s_disk.rows) = 1
    /\ ~s_dict

\* the default of a field: [] for a set-typed field, 'unknown' for a scalar
DefaultOf(field) == IF field \in ListFields THEN PyList(<<>>) ELSE PyStr(Unknown)

(* C17: in the record validate_entry returns, every field that was absent  *)
(* from the mapping or present with null holds its default: the empty list *)
(* for a set-typed field, "unknown" for a scalar; the empty mapping gives  *)
(* four empty lists and nine "unknown".                                    *)
DefaultFilling ==
    /\ Returned =>
          \A field \in SchemaFields :
              (field \notin DOMAIN v_entry \/ v_entry[field] = PyNone)
                  => v_out.cleaned[field] = DefaultOf(field)
    /\ (v_pc = "done" /\ v_entry = EmptyEntry) =>
          /\ Returned
          /\ Cardinality({f \in SchemaFields : v_out.cleaned[f] = PyList(<<>>)}) = 4
          /\ Cardinality({f \in SchemaFields : v_out.cleaned[f] = PyStr(Unknown)}) = 9

DefaultFillingWitness ==
    /\ Returned
    /\ DOMAIN v_entry = {"impacts"}
    /\ v_entry["impacts"] = PyNone
    /\ v_out.cleaned["impacts"] = PyList(<<>>)
    /\ v_out.cleaned["title"] = PyStr(Unknown)

(* C18: a file whose extracted text is empty or shorter than 100           *)
(* characters gets no LLM call, adds no record, leaves the dataset file    *)
(* and the record count as they were, and the loop goes on; a text of 100  *)
(* characters is sent to the LLM.                                          *)
InsufficientTextSkip ==
    [][ (FileStep /\ last'.text \notin {NotParsed, ParseRaises})
        => /\ last'.text < MinTextLen =>
                 /\ llm_calls' = llm_calls
                 /\ last'.reply = NotAsked
                 /\ entries' = entries
                 /\ disk' = disk
                 /\ dict_file' = dict_file
                 /\ pc' = "loop"
           /\ last'.text >= MinTextLen =>
                 llm_calls' = Append(llm_calls, html_files[idx])
      ]_vars

InsufficientTextSkipWitness ==
    /\ pc = "loop"
    /\ Len(log) = 2
    /\ log[1].outcome = "insufficient"
    /\ log[2].outcome = "saved"
    /\ last.text = MinTextLen
    /\ Len(entries) = 1

(* C19: a file whose url resolves to "unknown" is never skipped by the     *)
(* duplicate check, also when the loaded dataset holds records with        *)
(* url_source "unknown": its step always goes on to parse the file.        *)
UnknownUrlNeverSkipped ==
    [][ (FileStep /\ file_urls[idx] = PyStr(Unknown))
        => /\ last'.text # NotParsed
           /\ ~(Len(log') = Len(log) + 1 /\ log'[Len(log')].outcome = "skipped")
      ]_vars

UnknownUrlNeverSkippedWitness ==
    /\ run = 2
    /\ PyStr(Unknown) \in existing_urls
    /\ \E i \in 1..Len(log) :
          /\ file_urls[i] = PyStr(Unknown)
          /\ log[i].outcome = "saved"
    /\ Len(entries) = 2

(* C20: every run that reaches the end of its loop and returns has written *)
(* the statistics document, unless the write itself failed; also a run in  *)
(* which no file produced a record and the dataset was empty.              *)
RunStatsPersisted == (pc = "returned" /\ last.stats # "fails") => stats_file.written

\* the step appended a record for its file
RecordAdded == FileStep /\ Len(entries') = Len(entries) + 1

(* C21 as stated: the url_source of a record process_directory creates is  *)
(* the url the metadata resolves for the file, "unknown" without a match.  *)
UrlSourceFromMetadata ==
    [][ RecordAdded => entries'[Len(entries')]["url_source"] = file_urls[idx] ]_vars

(* C21: the url_source of a record process_directory creates is the url    *)
(* the metadata resolves for the file with surrounding whitespace trimmed  *)
(* ("unknown" when nothing is left or there is no match); the url_source   *)
(* of the LLM reply is never kept.                                         *)
UrlSourceFromMetadataTrimmed ==
    [][ RecordAdded =>
          /\ entries'[Len(entries')]["url_source"] = CleanText(file_urls[idx])
          /\ ("url_source" \in DOMAIN last'.reply.v
                 /\ last'.reply.v["url_source"] # file_urls[idx])
                => entries'[Len(entries')]["url_source"] # last'.reply.v["url_source"]
      ]_vars

UrlSourceFromMetadataTrimmedWitness ==
    /\ pc = "loop"
    /\ idx = 2
    /\ last.save = "ok"
    /\ "url_source" \in DOMAIN last.reply.v
    /\ file_urls[1] = PyStr(<<" ">> \o UrlB)
    /\ entries[Len(entries)]["url_source"] = PyStr(UrlB)

\* the position of a file in the listing
FilePos(file_name) == CHOOSE k \in 1..Len(html_files) : html_files[k] = file_name

(* C22: within a run the files are handled in listing order, a file gets   *)
(* at most one LLM call, and between two files no checkpoint is pending:   *)
(* when the file before was saved, the dataset file holds every record.    *)
SequentialProcessing ==
    /\ Len(log) <= Len(html_files)
    /\ \A i \in 1..Len(log) : log[i].file = html_files[i]
    /\ \A i \in 1..Len(llm_calls) :
          \E k \in 1..Len(html_files) : llm_calls[i] = html_files[k]
    /\ \A i, j \in 1..Len(llm_calls) :
          i < j => FilePos(llm_calls[i]) < FilePos(llm_calls[j])
    /\ (pc = "loop" /\ Len(log) > 0 /\ log[Len(log)].outcome = "saved")
          => (disk.rows = to_csv(entries) /\ dict_file)

SequentialProcessingWitness ==
    /\ pc = "loop"
    /\ Len(log) = 2
    /\ log[1].outcome = "saved"
    /\ log[2].outcome = "saved"
    /\ llm_calls = html_files

(* C23: every element of a list given for a set-typed field whose          *)
(* stringified, trimmed text is non-empty is in the validated list,        *)
(* lower-cased; this covers the number 0 and the boolean false.            *)
ElementRetention ==
    \A field \in ListFields :
        (Returned /\ field \in DOMAIN v_entry /\ v_entry[field].t = "list") =>
            LET given == v_entry[field].v
                out == v_out.cleaned[field].v
            IN  \A i \in 1..Len(given) :
                    Strip(ToStr(given[i])) # <<>> =>
                        \E k \in 1..Len(out) :
                            out[k] = PyStr(Lower(Strip(ToStr(given[i]))))

(* C24: validate_entry given a record it returned returns, and returns     *)
(* that same record.                                                       *)
ValidateIdempotent ==
    v_pc = "again" => (~v_out.raised /\ v_out.cleaned = v_entry)

ValidateIdempotentWitness ==
    /\ v_pc = "again"
    /\ ~v_out.raised
    /\ v_out.cleaned["summary"] = PyStr(<<"A", ".", " ", "B", ".", " ", "C", ".", " ", "D", ".">>)

\* a _get_page_content call is running
CallRunning == g_pc \in {"load", "wait", "first", "anyway"}

(* C25: a _get_page_content call makes at most max_retries page loads,     *)
(* polls a challenge at most 20 times per load, and always returns, with   *)
(* page content or None; cloudflare_solved, once true, stays true through  *)
(* every later call.                                                       *)
GetPageContentTerminates ==
    /\ [](loads <= max_retries /\ wait_cycle <= 20)
    /\ [](g_pc = "returned" => g_result \in {"content", "None"})
    /\ (CallRunning ~> g_pc = "returned")
    /\ [][cloudflare_solved => cloudflare_solved']_vars

GetPageContentTerminatesWitness ==
    /\ g_pc = "returned"
    /\ g_result = "None"
    /\ max_retries = DefaultMaxRetries
    /\ loads = max_retries
    /\ wait_cycle = 15
    /\ cloudflare_solved

====
